---- MODULE Spec2Model ----
(***************************************************************************)
(* The Instagram post-metrics screen: the component App of                 *)
(* src/client/src/App.jsx and its earlier iteration, the component Home of *)
(* src/unnamed/part_000.  One page load of one of the two components is    *)
(* modelled: the React state of the component, the query string of the     *)
(* visible URL, the requests sent to the backend and those still in        *)
(* flight.  A handler is cut where it awaits: its part up to the fetch is  *)
(* one action, its continuation on the arrival of the response another.    *)
(***************************************************************************)
EXTENDS Naturals, Sequences, FiniteSets

VARIABLES
    variant,          \* which component is mounted: "App" or "Home"
    urlCode,          \* the `code` parameter of window.location.search
    page,             \* "app", or the URL the browser was sent to
    mounted,          \* the mount effect has run
    isAuthenticated, accessToken, igBusinessId,
    postUrl, metrics, error, loading,
    username, accountData, searchError,
    sent,             \* every request dispatched so far, in order
    inflight,         \* indices in sent of the requests not yet resolved
    last              \* the step taken last: handler, request, response

session == <<isAuthenticated, accessToken, igBusinessId>>
state   == <<isAuthenticated, accessToken, igBusinessId, postUrl, metrics,
             error, loading, username, accountData, searchError>>
browser == <<variant, urlCode, page, mounted>>
network == <<sent, inflight>>
vars    == <<variant, urlCode, page, mounted, isAuthenticated, accessToken,
             igBusinessId, postUrl, metrics, error, loading, username,
             accountData, searchError, sent, inflight, last>>

----------------------------------------------------------------------------
(* Bounds of the model.                                                    *)

\* requests dispatched during one page load
MaxRequests == 3

----------------------------------------------------------------------------
(* JavaScript values.                                                      *)

NULL  == "<null>"
UNDEF == "<undefined>"

\* a value that `!v` and `v || w` treat as false
Falsy(v) == v \in {NULL, UNDEF, ""}

\* a || b
Or(a, b) == IF Falsy(a) THEN b ELSE a

----------------------------------------------------------------------------
(* Responses of the backend.  outcome is "rejected" when fetch throws (no  *)
(* HTTP response), "badjson" when response.json() throws, "json" when the  *)
(* body is a JSON object; message is the message of the error thrown in    *)
(* the first two cases.                                                    *)

Response(outcome, ok, message, err, details, token, ig, url, data) ==
    [outcome |-> outcome, ok |-> ok, message |-> message, error |-> err,
     details |-> details, accessToken |-> token, igBusinessId |-> ig,
     url |-> url, data |-> data]

NoResponse == Response("none", FALSE, UNDEF, UNDEF, UNDEF, UNDEF, UNDEF, UNDEF, UNDEF)

\* the message of the TypeError a rejected fetch carries (set by the browser)
NetworkErrorMessages ==
    {"Failed to fetch", "NetworkError when attempting to fetch resource."}

\* the message of the SyntaxError of response.json() (set by the browser)
JsonErrorMessages == {"Unexpected end of JSON input"}

Rejected ==
    {Response("rejected", FALSE, m, UNDEF, UNDEF, UNDEF, UNDEF, UNDEF, UNDEF) :
        m \in NetworkErrorMessages}

BadJson ==
    {Response("badjson", ok, m, UNDEF, UNDEF, UNDEF, UNDEF, UNDEF, UNDEF) :
        ok \in BOOLEAN, m \in JsonErrorMessages}

HttpError(errs, dets) ==
    {Response("json", FALSE, UNDEF, e, d, UNDEF, UNDEF, UNDEF, UNDEF) :
        e \in errs, d \in dets}

AuthResponses ==
    Rejected \cup BadJson
    \cup HttpError({UNDEF, "This authorization code has been used."}, {UNDEF})
    \cup {Response("json", TRUE, UNDEF, UNDEF, UNDEF, t, b, UNDEF, UNDEF) :
            t \in {"tokenA", UNDEF}, b \in {"ig17", UNDEF}}

LoginResponses ==
    Rejected \cup BadJson
    \cup HttpError({UNDEF, "oauth not configured"}, {UNDEF})
    \cup {Response("json", TRUE, UNDEF, UNDEF, UNDEF, UNDEF, UNDEF, u, UNDEF) :
            u \in {"https://provider/oauth", UNDEF}}

MetricsResponses ==
    Rejected \cup BadJson
    \cup HttpError({UNDEF, "bad url"}, {UNDEF})
    \cup {Response("json", TRUE, UNDEF, UNDEF, UNDEF, UNDEF, UNDEF, UNDEF, d) :
            d \in {"M1", "M2"}}

\* the body "A3" is a 2xx body without the `user` field
SearchResponses ==
    Rejected \cup BadJson
    \cup HttpError({UNDEF, "user not found"}, {UNDEF, "graph api said no"})
    \cup {Response("json", TRUE, UNDEF, UNDEF, UNDEF, UNDEF, UNDEF, UNDEF, d) :
            d \in {"A1", "A2", "A3"}}

\* data.user of a search body
HasUser(data) == data \in {"A1", "A2"}

\* the permalinks of data.media of a search body
Media(data) ==
    CASE data = "A1" -> <<"p2", "p3">>
      [] data = "A2" -> <<"p3">>
      [] OTHER       -> <<"p2">>

\* what the user can type in a form field
Typed == {"", "p1"}
Names == {"", "carryminati"}

\* the `code` of the URL the page is loaded with: none, empty, or a code
Codes == {NULL, "", "c1"}

----------------------------------------------------------------------------
(* useState: the state after construction.                                 *)

Step(op, id, r) == [op |-> op, id |-> id, resp |-> r]

Init ==
    /\ variant \in {"App", "Home"}
    /\ urlCode \in Codes
    /\ page = "app"
    /\ mounted = FALSE
    /\ isAuthenticated = FALSE
    /\ accessToken = NULL
    /\ igBusinessId = NULL
    /\ postUrl = ""
    /\ metrics = NULL
    /\ error = NULL
    /\ loading = FALSE
    /\ username = ""
    /\ accountData = NULL
    /\ searchError = NULL
    /\ sent = <<>>
    /\ inflight = {}
    /\ last = Step("init", 0, NoResponse)

\* a handler that closed over the session of the first render
RequestOfFirstRender(kind, arg) ==
    [kind |-> kind, arg |-> arg, accessToken |-> NULL, igBusinessId |-> NULL]

\* fetch(...): the request leaves with the values the handler closed over
Request(kind, arg) ==
    [kind |-> kind, arg |-> arg, accessToken |-> accessToken,
     igBusinessId |-> igBusinessId]

Dispatch(kind, arg) ==
    /\ Len(sent) < MaxRequests
    /\ sent' = Append(sent, Request(kind, arg))
    /\ inflight' = inflight \cup {Len(sent) + 1}

\* the response to request id arrives at the page that sent it
Arrives(id, kind) ==
    /\ page = "app"
    /\ id \in inflight
    /\ sent[id].kind = kind
    /\ inflight' = inflight \ {id}
    /\ sent' = sent

----------------------------------------------------------------------------
(* What the handlers show when a request fails.                            *)

\* the literal of the `throw new Error(data.error || ...)` of a handler
ThrowFallback(handler) ==
    CASE handler = "handleAuthCallback"  -> "Authentication failed"
      [] handler = "handleLogin"         -> "Failed to initialize login"
      [] handler = "handleSubmit"        -> "Failed to fetch post metrics"
      [] handler = "handleAccountSearch" -> "Failed to search account"

\* the literal of the catch block of a handler
CatchFallback(handler) ==
    CASE handler = "handleAuthCallback"  -> "Authentication failed. Please try again."
      [] handler = "handleLogin"         -> "Failed to initialize login. Please try again."
      [] handler = "handleSubmit"        ->
            "Failed to fetch post metrics. Please check the URL and try again."
      [] handler = "handleAccountSearch" -> "Failed to search account. Please try again."

\* the message of the TypeError of data.user.username when data.user is missing
DerefErrorMessage == "Cannot read properties of undefined (reading 'username')"

\* the search reading data.details before data.error
BackendTextDetailsFirst(handler, r) ==
    IF handler = "handleAccountSearch"
    THEN Or(r.details, Or(r.error, ThrowFallback(handler)))
    ELSE Or(r.error, ThrowFallback(handler))

\* data.error || <literal>, and for the search data.error || data.details || <literal>
BackendText(handler, r) ==
    IF handler = "handleAccountSearch"
    THEN Or(r.error, Or(r.details, ThrowFallback(handler)))
    ELSE Or(r.error, ThrowFallback(handler))

\* a try block that throws the literal alone, without `data.error ||`
ThrownLiteral(handler, r) ==
    CASE r.outcome \in {"rejected", "badjson"} -> r.message
      [] r.outcome = "json" /\ ~r.ok -> ThrowFallback(handler)
      [] r.outcome = "json" /\ r.ok /\ handler = "handleAccountSearch"
            /\ ~HasUser(r.data) -> DerefErrorMessage
      [] OTHER -> NULL

\* App: error.message of the error the try block throws on response r, NULL
\* when it runs to its end
Thrown(handler, r) ==
    CASE r.outcome \in {"rejected", "badjson"} -> r.message
      [] r.outcome = "json" /\ ~r.ok -> BackendText(handler, r)
      [] r.outcome = "json" /\ r.ok /\ handler = "handleAccountSearch"
            /\ ~HasUser(r.data) -> DerefErrorMessage
      [] OTHER -> NULL

\* Home: the try block throws on a rejected fetch, on a status that is not ok
\* (tested before the body is read) and on a body that does not parse
ThrownHome(r) == r.outcome # "json" \/ ~r.ok

\* the try block of the handler throws on response r
Throws(handler, r) ==
    IF variant = "App" THEN Thrown(handler, r) # NULL ELSE ThrownHome(r)

\* a catch block that passes its literal alone, without `error.message ||`
ShownLiteral(handler, r) == CatchFallback(handler)

\* the text the catch block passes to setError / setSearchError
Shown(handler, r) ==
    IF variant = "App"
    THEN Or(Thrown(handler, r), CatchFallback(handler))
    ELSE CatchFallback(handler)

\* the handler calls setError(null) before its fetch: all of App's do, of
\* Home's only handleSubmit
ClearsError(handler) == variant = "App" \/ handler = "handleSubmit"

\* the handler calls setMetrics(null) before its fetch: App's handleSubmit
ClearsMetrics == variant = "App"

\* setLoading(false) as the last statement of the try block, not in a finally
EndOfTry(thrown) == IF thrown THEN loading ELSE FALSE

\* finally { setLoading(false) }: whether or not the try block threw
Finally(thrown) == FALSE

\* a continuation that drops the response of any request but the latest
LatestOnly(id, data) ==
    IF \A i \in DOMAIN sent : sent[i].kind = "metrics" => i <= id
    THEN data ELSE metrics

\* setMetrics(data) of the continuation of request id: unconditional
Overwrite(id, data) == data

\* window.location.href = url
Href(url) == IF url = UNDEF THEN "undefined" ELSE url

----------------------------------------------------------------------------
(* What is on screen.                                                      *)

Interactive == page = "app" /\ mounted

\* the login button: shown while not authenticated; App disables it while
\* loading, Home does not
LoginButton == ~isAuthenticated /\ (variant = "App" => ~loading)

\* the two forms are rendered once authenticated, the search form by App only
MetricsForm == isAuthenticated
SearchForm  == isAuthenticated /\ variant = "App"

\* submit buttons without the disabled attribute
SubmitAlways == TRUE

\* the submit buttons carry disabled={loading}
SubmitButton == ~loading

\* the media rows and their "Use this post URL" buttons
MediaRows == SearchForm /\ ~Falsy(accountData)

----------------------------------------------------------------------------
(* Auth Flow Controller.                                                   *)

\* an effect without its dependency array runs after every render
EffectEveryRender == TRUE

\* useEffect(..., []): the effect runs once, after the first render
EffectPending == ~mounted

\* an effect that calls handleAuthCallback without testing the code
NoCodeCheck == FALSE

\* if (code): the parameter is absent or empty
NoCode == Falsy(urlCode)

handleAuthCallback(code) ==
    /\ loading' = TRUE
    /\ error' = IF ClearsError("handleAuthCallback") THEN NULL ELSE error
    /\ Dispatch("auth", code)
    /\ last' = Step("handleAuthCallback", Len(sent) + 1, NoResponse)
    /\ UNCHANGED <<session, postUrl, metrics, username, accountData, searchError>>

useEffect ==
    /\ page = "app"
    /\ EffectPending
    /\ mounted' = TRUE
    /\ UNCHANGED <<variant, urlCode, page>>
    /\ IF NoCode
       THEN /\ last' = Step("useEffect", 0, NoResponse)
            /\ UNCHANGED <<state, network>>
       ELSE handleAuthCallback(urlCode)

\* window.history.replaceState({}, document.title, window.location.pathname)
replaceState == urlCode' = NULL

\* A continuation that marks the session authenticated before it tests the
\* status of the response.
handleAuthCallbackEager(id, r) ==
    /\ Arrives(id, "auth")
    /\ last' = Step("handleAuthCallback", id, r)
    /\ loading' = Finally(Throws("handleAuthCallback", r))
    /\ isAuthenticated' = TRUE
    /\ IF Throws("handleAuthCallback", r)
       THEN /\ error' = Shown("handleAuthCallback", r)
            /\ UNCHANGED <<accessToken, igBusinessId, urlCode>>
       ELSE /\ accessToken' = r.accessToken
            /\ igBusinessId' = r.igBusinessId
            /\ replaceState
            /\ error' = error
    /\ UNCHANGED <<variant, page, mounted, postUrl, metrics, username,
                   accountData, searchError>>

handleAuthCallbackResumes(id, r) ==
    /\ Arrives(id, "auth")
    /\ last' = Step("handleAuthCallback", id, r)
    /\ loading' = Finally(Throws("handleAuthCallback", r))
    /\ IF Throws("handleAuthCallback", r)
       THEN /\ error' = Shown("handleAuthCallback", r)
            /\ UNCHANGED <<session, urlCode>>
       ELSE /\ accessToken' = r.accessToken
            /\ igBusinessId' = r.igBusinessId
            /\ isAuthenticated' = TRUE
            /\ replaceState
            /\ error' = error
    /\ UNCHANGED <<variant, page, mounted, postUrl, metrics, username,
                   accountData, searchError>>

handleLogin ==
    /\ Interactive
    /\ LoginButton
    /\ error' = IF ClearsError("handleLogin") THEN NULL ELSE error
    /\ Dispatch("login", NULL)
    /\ last' = Step("handleLogin", Len(sent) + 1, NoResponse)
    /\ UNCHANGED <<browser, session, postUrl, metrics, loading, username,
                   accountData, searchError>>

handleLoginResumes(id, r) ==
    /\ Arrives(id, "login")
    /\ last' = Step("handleLogin", id, r)
    /\ IF Throws("handleLogin", r)
       THEN /\ error' = Shown("handleLogin", r)
            /\ page' = page
       ELSE /\ page' = Href(r.url)
            /\ error' = error
    /\ UNCHANGED <<variant, urlCode, mounted, session, postUrl, metrics,
                   loading, username, accountData, searchError>>

----------------------------------------------------------------------------
(* Metrics Fetcher.                                                        *)

\* onChange of the post-URL field
setPostUrl(v) ==
    /\ postUrl' = v
    /\ last' = Step("setPostUrl", 0, NoResponse)
    /\ UNCHANGED <<browser, session, metrics, error, loading, username,
                   accountData, searchError, network>>

typePostUrl == Interactive /\ MetricsForm /\ \E v \in Typed : setPostUrl(v)

\* a handler without the guard on postUrl
NoPostUrlCheck == FALSE

\* if (!postUrl) return
NoPostUrl == Falsy(postUrl)

\* the submit event of the metrics form
handleSubmit ==
    /\ Interactive
    /\ MetricsForm
    /\ UNCHANGED <<browser, session, postUrl, username, accountData, searchError>>
    /\ IF NoPostUrl
       THEN /\ last' = Step("handleSubmit", 0, NoResponse)
            /\ UNCHANGED <<metrics, error, loading, network>>
       ELSE /\ loading' = TRUE
            /\ error' = IF ClearsError("handleSubmit") THEN NULL ELSE error
            /\ metrics' = IF ClearsMetrics THEN NULL ELSE metrics
            /\ Dispatch("metrics", postUrl)
            /\ last' = Step("handleSubmit", Len(sent) + 1, NoResponse)

\* a continuation that sends the request again when it fails
handleSubmitRetries(id, r) ==
    /\ page = "app"
    /\ id \in inflight
    /\ sent[id].kind = "metrics"
    /\ last' = Step("handleSubmit", id, r)
    /\ IF Throws("handleSubmit", r) /\ Len(sent) < MaxRequests
       THEN /\ sent' = Append(sent, sent[id])
            /\ inflight' = (inflight \ {id}) \cup {Len(sent) + 1}
            /\ UNCHANGED <<loading, error, metrics>>
       ELSE /\ sent' = sent
            /\ inflight' = inflight \ {id}
            /\ loading' = FALSE
            /\ IF Throws("handleSubmit", r)
               THEN error' = Shown("handleSubmit", r) /\ metrics' = metrics
               ELSE metrics' = Overwrite(id, r.data) /\ error' = error
    /\ UNCHANGED <<browser, session, postUrl, username, accountData, searchError>>

\* a continuation that signs the user out when its request fails
handleSubmitSignsOut(id, r) ==
    /\ Arrives(id, "metrics")
    /\ last' = Step("handleSubmit", id, r)
    /\ loading' = Finally(Throws("handleSubmit", r))
    /\ IF Throws("handleSubmit", r)
       THEN /\ error' = Shown("handleSubmit", r)
            /\ metrics' = metrics
            /\ isAuthenticated' = FALSE
            /\ accessToken' = NULL
            /\ igBusinessId' = NULL
       ELSE /\ metrics' = Overwrite(id, r.data)
            /\ error' = error
            /\ UNCHANGED session
    /\ UNCHANGED <<browser, postUrl, username, accountData, searchError>>

handleSubmitResumes(id, r) ==
    /\ Arrives(id, "metrics")
    /\ last' = Step("handleSubmit", id, r)
    /\ loading' = Finally(Throws("handleSubmit", r))
    /\ IF Throws("handleSubmit", r)
       THEN /\ error' = Shown("handleSubmit", r)
            /\ metrics' = metrics
       ELSE /\ metrics' = Overwrite(id, r.data)
            /\ error' = error
    /\ UNCHANGED <<browser, session, postUrl, username, accountData, searchError>>

----------------------------------------------------------------------------
(* Account Search Fetcher (App only).                                      *)

\* onChange of the username field
setUsername(v) ==
    /\ username' = v
    /\ last' = Step("setUsername", 0, NoResponse)
    /\ UNCHANGED <<browser, session, postUrl, metrics, error, loading,
                   accountData, searchError, network>>

typeUsername == Interactive /\ SearchForm /\ \E v \in Names : setUsername(v)

\* a guard on the username alone
MissingUsername == Falsy(username)

\* if (!username || !accessToken || !igBusinessId) return
MissingSearchInput == Falsy(username) \/ Falsy(accessToken) \/ Falsy(igBusinessId)

\* the submit event of the search form
handleAccountSearch ==
    /\ Interactive
    /\ SearchForm
    /\ UNCHANGED <<browser, session, postUrl, metrics, error, username>>
    /\ IF MissingSearchInput
       THEN /\ last' = Step("handleAccountSearch", 0, NoResponse)
            /\ UNCHANGED <<loading, accountData, searchError, network>>
       ELSE /\ loading' = TRUE
            /\ searchError' = NULL
            /\ accountData' = NULL
            /\ Dispatch("search", username)
            /\ last' = Step("handleAccountSearch", Len(sent) + 1, NoResponse)

\* a continuation that reports its failure through setError
handleAccountSearchSharedError(id, r) ==
    /\ Arrives(id, "search")
    /\ last' = Step("handleAccountSearch", id, r)
    /\ loading' = Finally(Throws("handleAccountSearch", r))
    /\ accountData' = IF r.outcome = "json" /\ r.ok THEN r.data ELSE accountData
    /\ error' = IF Throws("handleAccountSearch", r)
                THEN Shown("handleAccountSearch", r)
                ELSE error
    /\ UNCHANGED <<browser, session, postUrl, metrics, searchError, username>>

\* setAccountData(data) precedes the console.log that reads data.user.username
handleAccountSearchResumes(id, r) ==
    /\ Arrives(id, "search")
    /\ last' = Step("handleAccountSearch", id, r)
    /\ loading' = Finally(Throws("handleAccountSearch", r))
    /\ accountData' = IF r.outcome = "json" /\ r.ok THEN r.data ELSE accountData
    /\ searchError' = IF Throws("handleAccountSearch", r)
                      THEN Shown("handleAccountSearch", r)
                      ELSE searchError
    /\ UNCHANGED <<browser, session, postUrl, metrics, error, username>>

\* every row's button passing the permalink of the first row
FirstPermalink(i) == Media(accountData)[1]

\* post.permalink of the i-th media row
Permalink(i) == Media(accountData)[i]

\* onClick of "Use this post URL" of the i-th media row
usePostUrl ==
    /\ Interactive
    /\ MediaRows
    /\ \E i \in DOMAIN Media(accountData) :
          /\ postUrl' = Permalink(i)
          /\ last' = Step("usePostUrl", i, NoResponse)
    /\ UNCHANGED <<browser, session, metrics, error, loading, username,
                   accountData, searchError, network>>

----------------------------------------------------------------------------
(* Renderer: the five metric cards of App.                                 *)

\* metrics.data of a metrics body: records { name, values: [{ value }] }
MetricsData(body) ==
    CASE body = "M1" ->
            <<[name |-> "likes", values |-> <<42>>],
              [name |-> "ig_reels_video_view_total_time", values |-> <<12340>>],
              [name |-> "reach", values |-> <<900>>],
              [name |-> "likes", values |-> <<1>>]>>
      [] body = "M2" ->
            <<[name |-> "comments", values |-> <<7>>],
              [name |-> "plays", values |-> <<0>>],
              [name |-> "ig_reels_aggregated_all_plays_count", values |-> <<>>]>>
      [] OTHER -> <<>>

\* the names the four counting cards look up
CountCards == {"likes", "comments", "ig_reels_aggregated_all_plays_count", "plays"}

\* data.find(metric => metric.name === name)?.values[0]?.value : <<v>>, or
\* <<>> for undefined
FirstValue(data, name) ==
    LET hits == {i \in DOMAIN data : data[i].name = name}
    IN  IF hits = {} THEN <<>>
        ELSE LET first == CHOOSE i \in hits : \A j \in hits : i <= j
             IN  IF data[first].values = <<>> THEN <<>>
                 ELSE <<data[first].values[1]>>

\* {... || 0} of a counting card
CountCard(data, name) ==
    LET v == FirstValue(data, name)
    IN  IF v = <<>> \/ v[1] = 0 THEN 0 ELSE v[1]

\* (ms / 1000).toFixed(1), in tenths of a second: the nearest tenth
ToFixed1(ms) == (ms + 50) \div 100

\* {(... / 1000).toFixed(1) || 0}s of the view-time card: undefined / 1000 is
\* NaN, and NaN.toFixed(1) is the non-empty string "NaN", so `|| 0` never
\* applies
ViewTimeCard(data) ==
    LET v == FirstValue(data, "ig_reels_video_view_total_time")
    IN  IF v = <<>> THEN [nan |-> TRUE, tenths |-> 0]
        ELSE [nan |-> FALSE, tenths |-> ToFixed1(v[1])]

\* {metrics && metrics.data && (...)}: the cards are on screen
CardsShown == variant = "App" /\ ~Falsy(metrics)

----------------------------------------------------------------------------
(* The page driven by its user: a form is submitted through its button,    *)
(* which is disabled while loading.                                        *)

submitMetricsForm == SubmitButton /\ handleSubmit
submitSearchForm  == SubmitButton /\ handleAccountSearch

authResponse    == \E id \in inflight : \E r \in AuthResponses : handleAuthCallbackResumes(id, r)
loginResponse   == \E id \in inflight : \E r \in LoginResponses : handleLoginResumes(id, r)
metricsResponse == \E id \in inflight : \E r \in MetricsResponses : handleSubmitResumes(id, r)
searchResponse  == \E id \in inflight : \E r \in SearchResponses : handleAccountSearchResumes(id, r)

Next ==
    \/ useEffect
    \/ handleLogin
    \/ typePostUrl
    \/ typeUsername
    \/ submitMetricsForm
    \/ submitSearchForm
    \/ usePostUrl
    \/ authResponse
    \/ loginResponse
    \/ metricsResponse
    \/ searchResponse

Spec == Init /\ [][Next]_vars

\* every request that was dispatched is answered, as long as the page that
\* sent it is there
SpecFair ==
    /\ Spec
    /\ WF_vars(authResponse)
    /\ WF_vars(loginResponse)
    /\ WF_vars(metricsResponse)
    /\ WF_vars(searchResponse)

(* The page driven by submit events dispatched at its forms (a script's    *)
(* form.requestSubmit(), a test's submit event): the handlers run whatever *)
(* the state of the buttons.                                               *)

NextEvents ==
    \/ useEffect
    \/ handleLogin
    \/ typePostUrl
    \/ typeUsername
    \/ handleSubmit
    \/ handleAccountSearch
    \/ usePostUrl
    \/ authResponse
    \/ loginResponse
    \/ metricsResponse
    \/ searchResponse

SpecEvents == Init /\ [][NextEvents]_vars

----------------------------------------------------------------------------
(* Properties.                                                             *)

Requests(kind) == {i \in DOMAIN sent : sent[i].kind = kind}

\* the step is the continuation of handler on a response
Resumed(step, handler) == step.op = handler /\ step.resp.outcome # "none"

\* the step is the part of handler up to its await (or its early return)
Started(step, handler) == step.op = handler /\ step.resp.outcome = "none"

\* a response that is no success: fetch threw, the status is not ok, or the
\* body does not parse
Failure(r) == r.outcome # "json" \/ ~r.ok

Success(r) == r.outcome = "json" /\ r.ok

\* C1: a page loaded with a `code` sends exactly one request to the
\* code-exchange endpoint, however many renders follow; a success response to
\* it makes isAuthenticated true, stores the response's accessToken and
\* igBusinessId and strips `code` from the visible URL, and this stays so.
C1_ExchangeOnce ==
    /\ [](/\ Cardinality(Requests("auth")) <= 1
          /\ (mounted /\ ~Falsy(urlCode)) =>
                \E i \in Requests("auth") : sent[i].arg = urlCode)
    /\ [][(Resumed(last', "handleAuthCallback") /\ Success(last'.resp)) =>
              /\ isAuthenticated'
              /\ accessToken' = last'.resp.accessToken
              /\ igBusinessId' = last'.resp.igBusinessId
              /\ urlCode' = NULL]_vars
    /\ [][isAuthenticated =>
              /\ isAuthenticated'
              /\ UNCHANGED <<accessToken, igBusinessId>>
              /\ urlCode' = NULL]_vars

\* C1 witness: the exchange succeeded, the session holds the response's
\* values, the URL is bare, and the page has re-rendered since (a metrics
\* result is stored) with the one exchange request still the only one.
C1_Witness ==
    /\ isAuthenticated /\ accessToken = "tokenA" /\ igBusinessId = "ig17"
    /\ urlCode = NULL
    /\ Cardinality(Requests("auth")) = 1
    /\ sent[1].arg = "c1"
    /\ metrics # NULL

C3_LoadingOnlyInFlight ==
    loading => \E i \in inflight : sent[i].kind \in {"auth", "metrics", "search"}

\* C3 witness: a request failed and loading is false again, with nothing in
\* flight.
C3_Witness ==
    /\ Resumed(last, "handleSubmit")
    /\ Failure(last.resp)
    /\ ~loading
    /\ inflight = {}

\* the step dispatched a request from handler
Dispatched(step, handler) == Started(step, handler) /\ step.id # 0

\* an HTTP response with a status that is not ok
NonOk(r) == r.outcome \in {"json", "badjson"} /\ ~r.ok

\* C4 as stated: every attempt of an action clears the action's error string
\* before its request is sent, and the string becomes non-null only when a
\* request of that action fails, never on a success response.
C4_Original ==
    [][/\ (\E h \in {"handleAuthCallback", "handleLogin", "handleSubmit"} :
              Dispatched(last', h)) => error' = NULL
       /\ Dispatched(last', "handleAccountSearch") => searchError' = NULL
       /\ (error' # error /\ error' # NULL) =>
              /\ \E h \in {"handleAuthCallback", "handleLogin", "handleSubmit"} :
                    Resumed(last', h)
              /\ Failure(last'.resp)
       /\ (searchError' # searchError /\ searchError' # NULL) =>
              /\ Resumed(last', "handleAccountSearch")
              /\ Failure(last'.resp)]_vars

\* C5 as stated: a metrics submission clears the stored result before its
\* request starts, so that no state shows the result of an earlier submission
\* next to the error of a later, failed one.
C5_Original ==
    /\ [][Dispatched(last', "handleSubmit") => metrics' = NULL]_vars
    /\ [](~(/\ Resumed(last, "handleSubmit") /\ Failure(last.resp)
            /\ error # NULL /\ metrics # NULL))

C7_LastWriteWins ==
    (Resumed(last, "handleSubmit") /\ Success(last.resp)) =>
        metrics = last.resp.data

\* C7 witness: two metrics requests were in flight together; the one
\* dispatched second resolved first, the one dispatched first resolved last
\* with the body "M1", and "M1" is stored.
C7_Witness ==
    /\ Resumed(last, "handleSubmit") /\ Success(last.resp)
    /\ last.resp.data = "M1"
    /\ \E j \in Requests("metrics") : j > last.id /\ j \notin inflight
    /\ Requests("metrics") \cap inflight = {}
    /\ metrics = "M1"

\* C8: a submit of the metrics form with an empty post-URL field sends no
\* request and changes nothing: not loading, error, metrics, the session or
\* the form inputs.
C8_EmptySubmit ==
    [][(Started(last', "handleSubmit") /\ Falsy(postUrl)) =>
          /\ last'.id = 0
          /\ UNCHANGED <<state, browser, network>>]_vars

\* C8 witness: the form was submitted with an empty field while a result was
\* on screen; nothing is in flight and no error is shown.
C8_Witness ==
    /\ last = Step("handleSubmit", 0, NoResponse)
    /\ postUrl = ""
    /\ metrics # NULL
    /\ error = NULL /\ ~loading /\ inflight = {}

\* C9: a submit of the search form with the username, the access token or the
\* business id missing sends no request and changes nothing.
C9_MissingSearchInput ==
    [][(/\ Started(last', "handleAccountSearch")
        /\ (Falsy(username) \/ Falsy(accessToken) \/ Falsy(igBusinessId))) =>
          /\ last'.id = 0
          /\ UNCHANGED <<state, browser, network>>]_vars

\* C9 witness: the exchange answered without an access token, a username was
\* typed and the search form submitted: nothing was sent for it.
C9_Witness ==
    /\ last = Step("handleAccountSearch", 0, NoResponse)
    /\ isAuthenticated
    /\ ~Falsy(username)
    /\ Falsy(accessToken)
    /\ Requests("search") = {}
    /\ searchError = NULL /\ ~loading

\* C10: no step of an account search (start, success, failure) changes the
\* shared error or the stored metrics, and a failed one changes nothing but
\* searchError and loading; no step of a metrics fetch changes searchError or
\* the stored account.
C10_SeparateErrors ==
    [][/\ last'.op = "handleAccountSearch" => UNCHANGED <<error, metrics>>
       /\ (Resumed(last', "handleAccountSearch") /\ Failure(last'.resp)) =>
              UNCHANGED <<session, postUrl, metrics, error, username, accountData>>
       /\ last'.op = "handleSubmit" => UNCHANGED <<searchError, accountData>>]_vars

\* C10 witness: a metrics fetch failed, then an account search failed: each
\* banner shows its own message.
C10_Witness ==
    /\ Resumed(last, "handleAccountSearch") /\ Failure(last.resp)
    /\ searchError = "user not found"
    /\ error = "bad url"

\* C11: no step of a metrics fetch or of an account search (early return,
\* dispatch, success, failure) changes isAuthenticated, accessToken or
\* igBusinessId.
C11_SessionReadOnly ==
    [][last'.op \in {"handleSubmit", "handleAccountSearch"} =>
          UNCHANGED <<isAuthenticated, accessToken, igBusinessId>>]_vars

\* C11 witness: a metrics fetch has succeeded and an account search has
\* failed, and the session still holds what the exchange stored.
C11_Witness ==
    /\ Resumed(last, "handleAccountSearch") /\ Failure(last.resp)
    /\ metrics # NULL
    /\ isAuthenticated /\ accessToken = "tokenA" /\ igBusinessId = "ig17"

\* C12 as stated: a success response to begin-login navigates to the returned
\* URL; a failure, that is a status that is not ok or a response without
\* `url`, sets an error message and navigates nowhere.
C12_Original ==
    [][Resumed(last', "handleLogin") =>
          IF Success(last'.resp) /\ last'.resp.url # UNDEF
          THEN page' = last'.resp.url
          ELSE page' = "app" /\ error' # NULL]_vars

\* C13: a page loaded without a `code` sends nothing by itself: while it is
\* not authenticated no exchange request exists, every request sent is a
\* login request (a click), loading is false, and error is null until one is
\* sent; the login button, not the forms, is on screen.
C13_NoCodeNoRequest ==
    (Falsy(urlCode) /\ ~isAuthenticated) =>
        /\ Requests("auth") = {}
        /\ \A i \in DOMAIN sent : sent[i].kind = "login"
        /\ ~loading
        /\ sent = <<>> => error = NULL

\* C13 witness: the page was loaded without a code, its effect has run, and
\* nothing was sent.
C13_Witness ==
    /\ mounted /\ urlCode = NULL
    /\ last = Step("useEffect", 0, NoResponse)
    /\ sent = <<>>
    /\ ~isAuthenticated /\ ~loading /\ error = NULL

\* the banner a handler reports its failure in
Banner(handler) == IF handler = "handleAccountSearch" THEN searchError ELSE error

Handlers == {"handleAuthCallback", "handleLogin", "handleSubmit", "handleAccountSearch"}

C15_LoadingWhileFetching ==
    /\ []((Requests("metrics") \cap inflight # {}) => loading)
    /\ [][Dispatched(last', "handleSubmit") =>
              (~loading /\ Requests("metrics") \cap inflight = {})]_vars

\* C15 witness: Home; a login request sent before the form appeared failed
\* while the metrics request is in flight, and loading is still true.
C15_Witness ==
    /\ Resumed(last, "handleLogin") /\ Failure(last.resp)
    /\ page = "app"
    /\ Requests("metrics") \cap inflight # {}
    /\ loading

\* C16: a request is sent only by the step of its trigger (the mount effect
\* with a `code`, a login click, a form submission), one request per trigger;
\* the arrival of a response, a failure included, sends nothing.
C16_NoRetry ==
    [][/\ sent' # sent =>
              /\ \E h \in Handlers : Dispatched(last', h)
              /\ last'.id = Len(sent) + 1
              /\ Len(sent') = Len(sent) + 1
              /\ \A i \in DOMAIN sent : sent'[i] = sent[i]
       /\ (\E h \in Handlers : Resumed(last', h)) =>
              /\ sent' = sent
              /\ inflight' = inflight \ {last'.id}]_vars

\* C16 witness: a metrics fetch failed, the user then edited the post URL,
\* and nothing has been sent since the failure.
C16_Witness ==
    /\ last.op = "setPostUrl"
    /\ error = "bad url"
    /\ inflight = {}
    /\ Len(sent) = 2
    /\ sent[2].kind = "metrics"

\* C17: "Use this post URL" on the i-th media row sets postUrl to that row's
\* permalink and changes nothing else, and sends nothing; a metrics
\* submission sends the postUrl of the moment as its postUrl.
C17_UsePostUrl ==
    [][/\ last'.op = "usePostUrl" =>
              /\ last'.id \in DOMAIN Media(accountData)
              /\ postUrl' = Media(accountData)[last'.id]
              /\ UNCHANGED <<browser, network, session, metrics, error, loading,
                             username, accountData, searchError>>
       /\ Dispatched(last', "handleSubmit") =>
              sent'[last'.id].arg = postUrl]_vars

\* C17 witness: the second row of a two-row result was used, and the metrics
\* request in flight carries its permalink "p3" (which cannot be typed).
C17_Witness ==
    /\ accountData = "A1"
    /\ Dispatched(last, "handleSubmit")
    /\ postUrl = "p3"
    /\ sent[last.id].kind = "metrics"
    /\ sent[last.id].arg = "p3"

\* C20: a metrics or search request is dispatched only while isAuthenticated
\* is true, with the postUrl or username, the accessToken and the
\* igBusinessId of the moment of the submission; what was sent is not changed
\* by later edits of the form or any other step.
C20_RequestSnapshot ==
    [][/\ Dispatched(last', "handleSubmit") =>
              /\ isAuthenticated
              /\ sent'[last'.id] =
                    [kind |-> "metrics", arg |-> postUrl,
                     accessToken |-> accessToken, igBusinessId |-> igBusinessId]
       /\ Dispatched(last', "handleAccountSearch") =>
              /\ isAuthenticated
              /\ sent'[last'.id] =
                    [kind |-> "search", arg |-> username,
                     accessToken |-> accessToken, igBusinessId |-> igBusinessId]
       /\ \A i \in DOMAIN sent : i \in DOMAIN sent' /\ sent'[i] = sent[i]]_vars

\* C20 witness: a metrics request for "p1" carrying the session is in flight
\* and the post-URL field has been emptied since.
C20_Witness ==
    /\ last.op = "setPostUrl"
    /\ postUrl = ""
    /\ \E i \in inflight :
          sent[i] = [kind |-> "metrics", arg |-> "p1",
                     accessToken |-> "tokenA", igBusinessId |-> "ig17"]

\* the entries of the stored metrics body with the given name
Entries(name) ==
    {i \in DOMAIN MetricsData(metrics) : MetricsData(metrics)[i].name = name}

\* C18 as stated: each of the five cards shows 0 when the stored body has no
\* entry of its name, and otherwise the first value of that entry, the
\* view-time card showing it divided by 1000.
C18_Original ==
    CardsShown =>
        /\ \A name \in CountCards :
              CountCard(MetricsData(metrics), name) =
                  IF FirstValue(MetricsData(metrics), name) = <<>> THEN 0
                  ELSE FirstValue(MetricsData(metrics), name)[1]
        /\ ViewTimeCard(MetricsData(metrics)) =
              IF Entries("ig_reels_video_view_total_time") = {}
              THEN [nan |-> FALSE, tenths |-> 0]
              ELSE [nan |-> FALSE,
                    tenths |-> ToFixed1(FirstValue(MetricsData(metrics),
                                   "ig_reels_video_view_total_time")[1])]

\* C19: a code exchange, a metrics fetch and an account search set loading
\* before their request leaves, and their continuation clears it whatever
\* the response (success, status not ok, rejected fetch, unparsable body);
\* so when every request is answered, loading is eventually false again,
\* unless the browser has left the page in the meantime.
C19_LoadingCleared ==
    /\ [][\A h \in Handlers \ {"handleLogin"} :
              /\ Dispatched(last', h) => loading'
              /\ Resumed(last', h) => ~loading']_vars
    /\ (loading ~> (~loading \/ page # "app"))

\* C19 witness: the body of a search response did not parse, and loading is
\* false again with the submit button enabled.
C19_Witness ==
    /\ Resumed(last, "handleAccountSearch")
    /\ last.resp.outcome = "badjson"
    /\ ~loading
    /\ page = "app"

\* the step signs the session in
SignsIn == ~isAuthenticated /\ isAuthenticated'

\* a session field holds a value (it is neither null nor undefined)
Present(v) == v \notin {NULL, UNDEF}

\* C21 as stated: isAuthenticated becomes true only by a success response to
\* the code exchange and never returns to false; while it is true,
\* accessToken and igBusinessId hold a value, the one of the response that
\* signed the session in; while it is false both are null.
C21_Original ==
    /\ [][SignsIn => /\ Resumed(last', "handleAuthCallback")
                     /\ Success(last'.resp)
                     /\ accessToken' = last'.resp.accessToken
                     /\ igBusinessId' = last'.resp.igBusinessId]_vars
    /\ [][isAuthenticated =>
              isAuthenticated' /\ UNCHANGED <<accessToken, igBusinessId>>]_vars
    /\ [](isAuthenticated => Present(accessToken) /\ Present(igBusinessId))
    /\ [](~isAuthenticated => accessToken = NULL /\ igBusinessId = NULL)

\* C21 amended: isAuthenticated becomes true only by a success response to
\* the code exchange and never returns to false; from that step on
\* accessToken and igBusinessId are whatever the accessToken and igBusinessId
\* fields of that response are, undefined when the body lacks the field (the
\* handler does not test them), and they never change; while isAuthenticated
\* is false both are null.
C21_SessionLifecycle ==
    /\ [][SignsIn => /\ Resumed(last', "handleAuthCallback")
                     /\ Success(last'.resp)
                     /\ accessToken' = last'.resp.accessToken
                     /\ igBusinessId' = last'.resp.igBusinessId]_vars
    /\ [][isAuthenticated =>
              isAuthenticated' /\ UNCHANGED <<accessToken, igBusinessId>>]_vars
    /\ [](~isAuthenticated => accessToken = NULL /\ igBusinessId = NULL)

\* C21 witness: the exchange was answered with status ok and a body without
\* accessToken; the session is signed in with an undefined token and the
\* response's igBusinessId, and both survived a later failed metrics fetch.
C21_Witness ==
    /\ isAuthenticated
    /\ accessToken = UNDEF
    /\ igBusinessId = "ig17"
    /\ Resumed(last, "handleSubmit")
    /\ Failure(last.resp)

====
